---- MODULE Spec2Model ----
(***************************************************************************)
(* A model of bipbip: the Binder (src/bipbip/binder.py), the in-memory     *)
(* record store of one account, and the account files kept by              *)
(* src/bipbip/filesmanager.py.  Python values are modelled by tagged       *)
(* records so that the conversions the code performs (json, base64, the    *)
(* engine's encrypt / decrypt) are real transformations of the value.      *)
(***************************************************************************)
EXTENDS Integers, Sequences, FiniteSets, TLC

VARIABLES
    userdict,               \* Binder.userdict
    private_website_code,   \* Binder.private_website_code (class attribute)
    last,                   \* the last Binder call: arguments, outcome, what it left to the caller
    fs,                     \* files/accounts/<account>: the directory and the files in it
    iconbank,               \* whether files/iconbank/iconui/default_profile.png exists
    del,                    \* delete_account: its position and local variables
    vlast                   \* the last filesmanager call

bvars == <<userdict, private_website_code, last>>
fvars == <<fs, iconbank, del, vlast>>
vars == <<userdict, private_website_code, last, fs, iconbank, del, vlast>>

-----------------------------------------------------------------------------
(* Program constants and bounds                                            *)

code_lenght == 10
encryption_iterations == 100000

\* the longest data list a caller passes to set_website_data
MaxData == 2

-----------------------------------------------------------------------------
(* Python values                                                           *)

\* a value that is not a str (an int), where the code tests isinstance(.., str)
NotAStr == "#int"
IsStr(x) == x # NotAStr

\* str field values.  t = "str": a literal text s.  t = "ct": the base64 text
\* of the ciphertext of s under key k with it iterations.  t = "int": no str.
Str(s) == [t |-> "str", k |-> "-", it |-> 0, s |-> s]
B64Text(ct) == [t |-> "ct", k |-> ct.k, it |-> ct.it, s |-> ct.s]
IntVal == [t |-> "int", k |-> "-", it |-> 0, s |-> "7"]
IsPyStr(v) == v.t \in {"str", "ct"}

\* sequences: a tuple, a list (python) or an array (json) of elements
Tup(a, b) == [kind |-> "tuple", elems |-> <<a, b>>]
Lst(a, b) == [kind |-> "list", elems |-> <<a, b>>]
Arr(a, b) == [kind |-> "array", elems |-> <<a, b>>]

Entry(name, enc, data) == [name |-> name, encrypted |-> enc, data |-> data]

\* userdict: a dict code -> entry, or (after json.loads of a document that is
\* no object) some other value
Dict(m) == [tag |-> "dict", m |-> m]
NotADict == [tag |-> "other", m |-> <<>>]
EmptyDict == Dict(<<>>)

\* key buffers: the bytearray the caller holds
KeyVals == {"K1", "K2"}
NoKey == "none"          \* user_key = None
BadKey == "badtype"      \* a user_key that is no bytearray
Wiped == "wiped"         \* the buffer after encryption.delete_bytearray
KeyArgs == KeyVals \cup {NoKey, BadKey}

PlainTexts == {"pw", "abcd"}
FieldTypes == {"login"}
Names == {"", "Amazon"}

SiteA == "aaaaaaaaaa"
SiteB == "bbbbbbbbbb"
ShortCode == "x"
Candidates == {SiteA, SiteB, ShortCode}

-----------------------------------------------------------------------------
(* The Crypto Engine as the Binder uses it, and base64                     *)

\* encryption.delete_bytearray(buffer)
delete_bytearray(buf) == Wiped

\* encryption.data_to_encryptedtext(data, key, iterations = n): the ciphertext
data_to_encryptedtext(data, key, n) == [k |-> key, it |-> n, s |-> data]

\* encryption.encryptedtext_to_data(encryptedtext, key, iterations = n):
\* the plaintext, or WrongKeyError for another key or a modified ciphertext
encryptedtext_to_data(bytes, key, n) ==
    IF bytes.ok /\ bytes.ct.k = key /\ bytes.ct.it = n
    THEN [err |-> "", data |-> bytes.ct.s]
    ELSE [err |-> "WrongKeyError", data |-> ""]

NoCt == [k |-> "-", it |-> 0, s |-> ""]

\* base64.b64decode(v): the bytes of a ciphertext, other bytes for a text
\* whose length is a multiple of four, binascii.Error for any other text,
\* TypeError for a value that is no str
b64decode(v) ==
    IF v.t = "ct" THEN [err |-> "", ok |-> TRUE, ct |-> [k |-> v.k, it |-> v.it, s |-> v.s]]
    ELSE IF v.t = "str"
         THEN IF Len(v.s) % 4 = 0
              THEN [err |-> "", ok |-> FALSE, ct |-> NoCt]
              ELSE [err |-> "binascii.Error", ok |-> FALSE, ct |-> NoCt]
         ELSE [err |-> "TypeError", ok |-> FALSE, ct |-> NoCt]

-----------------------------------------------------------------------------
(* json                                                                    *)

\* json.dumps: tuples and lists both become arrays
JsonItem(item) == [kind |-> "array", elems |-> item.elems]
JsonEntry(e) == Entry(e.name, e.encrypted, [i \in 1..Len(e.data) |-> JsonItem(e.data[i])])
json_dumps(ud) ==
    IF ud.tag = "dict"
    THEN Dict([c \in DOMAIN ud.m |-> JsonEntry(ud.m[c])])
    ELSE ud

\* json.loads: arrays become lists
PyItem(item) == [kind |-> "list", elems |-> item.elems]
PyEntry(e) == Entry(e.name, e.encrypted, [i \in 1..Len(e.data) |-> PyItem(e.data[i])])
json_loads(doc) ==
    IF doc.tag = "dict"
    THEN Dict([c \in DOMAIN doc.m |-> PyEntry(doc.m[c])])
    ELSE doc

\* byte strings handed to load / returned by dump
EmptyBytes == [tag |-> "empty", v |-> EmptyDict]
Garbage == [tag |-> "garbage", v |-> EmptyDict]
NotBytes == [tag |-> "nobytearray", v |-> EmptyDict]
JsonBytes(doc) == [tag |-> "json", v |-> doc]

-----------------------------------------------------------------------------
(* Binder: the operations as functions of the store                        *)

\* Binder.load(data)
load(ud, bytes) ==
    IF bytes.tag = "nobytearray" THEN [ud |-> ud, err |-> "TypeError"]
    ELSE IF bytes.tag = "empty" THEN [ud |-> EmptyDict, err |-> ""]
    ELSE IF bytes.tag = "garbage" THEN [ud |-> ud, err |-> "JSONDecodeError"]
    ELSE [ud |-> json_loads(bytes.v), err |-> ""]

\* Binder.dump()
dump(ud) ==
    IF ud.tag # "dict" THEN [bytes |-> EmptyBytes, err |-> "AttributeError"]
    ELSE IF DOMAIN ud.m = {} THEN [bytes |-> EmptyBytes, err |-> ""]
    ELSE [bytes |-> JsonBytes(json_dumps(ud)), err |-> ""]

\* (mutant) the listing without the filter on private codes
listing_unfiltered(ud, priv) == DOMAIN ud.m

\* Binder.listing_website_codes()
listing_website_codes(ud, priv) == {c \in DOMAIN ud.m : c \notin priv}

\* Binder.is_website_code(website_code): the exception it raises ("" for
\* none) and the value it returns
is_website_code(ud, priv, code) ==
    IF ~IsStr(code) THEN [err |-> "TypeError", val |-> FALSE]
    ELSE IF ud.tag # "dict" THEN [err |-> "AttributeError", val |-> FALSE]
    ELSE [err |-> "", val |-> code \in listing_website_codes(ud, priv)]

\* (mutant) the guard looks the code up among the keys of the mapping, the
\* private ones included
RequireKey(ud, priv, code) ==
    IF ~IsStr(code) THEN "TypeError"
    ELSE IF ud.tag # "dict" THEN "AttributeError"
    ELSE IF code \notin DOMAIN ud.m THEN "ValueError" ELSE ""

\* the guard every accessor starts with:
\*   if not self.is_website_code(website_code): raise ValueError(...)
RequireSite(ud, priv, code) ==
    LET r == is_website_code(ud, priv, code)
    IN  IF r.err # "" THEN r.err ELSE IF ~r.val THEN "ValueError" ELSE ""

\* (mutant) the loop tests the listed codes alone, not the private ones
generate_unreserved(ud, priv) ==
    {c \in Candidates : Len(c) = code_lenght /\ c \notin listing_website_codes(ud, priv)}

\* Binder.generate_website_code(): the codes the loop can end with
generate_website_code(ud, priv) ==
    LET website_codes == listing_website_codes(ud, priv)
    IN  {c \in Candidates : /\ Len(c) = code_lenght
                            /\ ~(c \in website_codes \/ c \in priv)}

\* Binder.get_website_name(website_code)
get_website_name(ud, priv, code) ==
    LET e == RequireSite(ud, priv, code)
    IN  IF e # "" THEN [err |-> e, hasRet |-> FALSE, val |-> ""]
        ELSE [err |-> "", hasRet |-> TRUE, val |-> ud.m[code].name]

\* Binder.get_website_data_number(website_code)
get_website_data_number(ud, priv, code) ==
    LET e == RequireSite(ud, priv, code)
    IN  IF e # "" THEN [err |-> e, hasRet |-> FALSE, val |-> 0]
        ELSE [err |-> "", hasRet |-> TRUE, val |-> Len(ud.m[code].data)]

\* Binder.set_website_name(website_code, website_name)
set_website_name(ud, priv, code, name) ==
    LET e == RequireSite(ud, priv, code)
    IN  IF e # "" THEN [ud |-> ud, err |-> e]
        ELSE IF ~IsStr(name) THEN [ud |-> ud, err |-> "TypeError"]
        ELSE [ud |-> Dict([ud.m EXCEPT ![code].name = name]), err |-> ""]

\* the mapping with m[code] = e (code a new or an old key)
Assign(m, code, e) == [c \in DOMAIN m \cup {code} |-> IF c = code THEN e ELSE m[c]]

\* Binder.add_website(website_code, website_name)
add_website(ud, priv, code, name) ==
    LET r == is_website_code(ud, priv, code)
    IN  IF r.err # "" THEN [ud |-> ud, err |-> r.err]
        ELSE IF r.val THEN [ud |-> ud, err |-> "ValueError"]
        ELSE LET ins == Dict(Assign(ud.m, code, Entry("", FALSE, <<>>)))
             IN  set_website_name(ins, priv, code, name)

\* Binder.remove_website(website_code)
remove_website(ud, priv, code) ==
    LET e == RequireSite(ud, priv, code)
    IN  IF e # "" THEN [ud |-> ud, err |-> e]
        ELSE [ud |-> Dict([c \in DOMAIN ud.m \ {code} |-> ud.m[c]]), err |-> ""]

\* Binder.is_encrypted_website_data(website_code)
is_encrypted_website_data(ud, priv, code) ==
    LET e == RequireSite(ud, priv, code)
    IN  IF e # "" THEN [err |-> e, val |-> FALSE]
        ELSE [err |-> "", val |-> ud.m[code].encrypted]

\* b.set_website_data_encryption(website_code, set_encrypted) on an instance
\* b: the function is defined without self, so the bound call hands three
\* positional arguments to a function of two and Python raises TypeError
\* before the body runs
set_website_data_encryption(ud, priv, code, set_encrypted) ==
    [ud |-> ud, err |-> "TypeError"]

\* the loop of get_website_data, from index i on: website_data is the list the
\* store holds, changed in place
RECURSIVE DecryptLoop(_, _, _, _)
DecryptLoop(website_data, i, user_key, n) ==
    IF i > Len(website_data)
    THEN [data |-> website_data, err |-> "", eng |-> n]
    ELSE LET datum == website_data[i]
         IN  IF Len(datum.elems) < 2
             THEN [data |-> website_data, err |-> "IndexError", eng |-> n]
             ELSE LET encrypted_datum == b64decode(datum.elems[2])
                      dec == encryptedtext_to_data(encrypted_datum, user_key,
                                                   encryption_iterations)
                  IN  IF encrypted_datum.err # ""
                      THEN [data |-> website_data, err |-> encrypted_datum.err, eng |-> n]
                      ELSE IF dec.err # ""
                      THEN [data |-> website_data, err |-> dec.err, eng |-> n + 1]
                      ELSE DecryptLoop(
                             [website_data EXCEPT ![i] = Tup(datum.elems[1], Str(dec.data))],
                             i + 1, user_key, n + 1)

\* (mutant) without a key the stored data are returned as they are
get_website_data_fallback(ud, priv, code, key) ==
    LET enc == is_encrypted_website_data(ud, priv, code)
    IN  IF enc.err # ""
        THEN [ud |-> ud, err |-> enc.err, key |-> key, hasRet |-> FALSE,
              ret |-> <<>>, eng |-> 0]
        ELSE [ud |-> ud, err |-> "", key |-> key, hasRet |-> TRUE,
              ret |-> ud.m[code].data, eng |-> 0]

\* Binder.get_website_data(website_code, user_key = key)
get_website_data(ud, priv, code, key) ==
    LET enc == is_encrypted_website_data(ud, priv, code)
        fail(e, k) == [ud |-> ud, err |-> e, key |-> k, hasRet |-> FALSE,
                       ret |-> <<>>, eng |-> 0]
    IN  IF enc.err # "" THEN fail(enc.err, key)
        ELSE IF ~enc.val
        THEN [ud |-> ud, err |-> "", key |-> key, hasRet |-> TRUE,
              ret |-> ud.m[code].data, eng |-> 0]
        ELSE IF key = NoKey THEN fail("TypeError", key)
        ELSE IF key = BadKey THEN fail("TypeError", key)
        ELSE LET r == DecryptLoop(ud.m[code].data, 1, key, 0)
                 after == Dict([ud.m EXCEPT ![code].data = r.data])
             IN  IF r.err = "WrongKeyError"
                 THEN [ud |-> after, err |-> r.err, key |-> delete_bytearray(key),
                       hasRet |-> FALSE, ret |-> <<>>, eng |-> r.eng]
                 ELSE IF r.err # ""
                 THEN [ud |-> after, err |-> r.err, key |-> key,
                       hasRet |-> FALSE, ret |-> <<>>, eng |-> r.eng]
                 ELSE [ud |-> after, err |-> "", key |-> delete_bytearray(key),
                       hasRet |-> TRUE, ret |-> r.data, eng |-> r.eng]

\* (mutant) the test accepts tuples of two elements or more
WellStructuredLoose(items) ==
    \A i \in 1..Len(items) :
        /\ items[i].kind = "tuple"
        /\ Len(items[i].elems) >= 2
        /\ \A j \in 1..Len(items[i].elems) : IsPyStr(items[i].elems[j])

\* the test set_website_data makes of every element of website_data
WellStructured(items) ==
    \A i \in 1..Len(items) :
        /\ items[i].kind = "tuple"
        /\ Len(items[i].elems) = 2
        /\ \A j \in 1..Len(items[i].elems) : IsPyStr(items[i].elems[j])

\* (mutant) user_key itself, not a copy, goes to the engine, which consumes
\* it: from the second datum on the key is the wiped buffer
EncryptLoopNoCopy(items, user_key) ==
    [i \in 1..Len(items) |->
        Tup(items[i].elems[1],
            B64Text(data_to_encryptedtext(items[i].elems[2].s,
                                          IF i = 1 THEN user_key ELSE delete_bytearray(user_key),
                                          encryption_iterations)))]

\* the loop of set_website_data: every datum of the caller's list replaced
EncryptLoop(items, user_key) ==
    [i \in 1..Len(items) |->
        Tup(items[i].elems[1],
            B64Text(data_to_encryptedtext(items[i].elems[2].s, user_key,
                                          encryption_iterations)))]

\* Binder.set_website_data(website_code, website_data, user_key = key);
\* arg is the caller's object, out is what it holds after the call
set_website_data(ud, priv, code, arg, key) ==
    LET enc == is_encrypted_website_data(ud, priv, code)
        fail(e) == [ud |-> ud, err |-> e, key |-> key, out |-> arg, eng |-> 0]
    IN  IF arg.kind # "list" THEN fail("TypeError")
        ELSE IF ~WellStructured(arg.items) THEN fail("ValueError")
        ELSE IF enc.err # "" THEN fail(enc.err)
        ELSE IF ~enc.val
        THEN [ud |-> Dict([ud.m EXCEPT ![code].data = arg.items]), err |-> "",
              key |-> key, out |-> arg, eng |-> 0]
        ELSE IF key = NoKey THEN fail("TypeError")
        ELSE IF key = BadKey THEN fail("TypeError")
        ELSE LET website_data == EncryptLoop(arg.items, key)
             IN  [ud |-> Dict([ud.m EXCEPT ![code].data = website_data]), err |-> "",
                  key |-> delete_bytearray(key),
                  out |-> [kind |-> "list", items |-> website_data],
                  eng |-> Len(arg.items)]

-----------------------------------------------------------------------------
(* Inputs of the Binder calls                                              *)

NoArg == [kind |-> "none", items |-> <<>>]
ListArg(items) == [kind |-> "list", items |-> items]

ValidItems == {Tup(Str(f), Str(p)) : f \in FieldTypes, p \in PlainTexts}
ValidData == UNION {[1..n -> ValidItems] : n \in 0..MaxData}

Tup3 == [kind |-> "tuple", elems |-> <<Str("login"), Str("pw"), Str("pw")>>]
\* data that set_website_data must refuse: a 3-tuple, a non-str element, a
\* list where a tuple is expected, a 3-tuple after a good tuple, and an
\* argument that is a tuple and no list
MalformedArgs ==
    { ListArg(<<Tup3>>),
      ListArg(<<Tup(Str("login"), IntVal)>>),
      ListArg(<<Lst(Str("login"), Str("pw"))>>),
      ListArg(<<Tup(Str("login"), Str("pw")), Tup3>>),
      [kind |-> "tuple", items |-> <<Tup(Str("login"), Str("pw"))>>] }
DataArgs == {ListArg(d) : d \in ValidData} \cup MalformedArgs

\* serialized stores a caller can hand to load
CtOf(key, text) == B64Text(data_to_encryptedtext(text, key, encryption_iterations))
DocEncEmpty == Entry("Amazon", TRUE, <<>>)
DocEncTwoKeys == Entry("", TRUE, << Arr(Str("login"), CtOf("K1", "pw")),
                                     Arr(Str("login"), CtOf("K2", "abcd")) >>)
DocPlain == Entry("", FALSE, << Arr(Str("login"), Str("pw")) >>)
OneSite(code, e) == JsonBytes(Dict(Assign(<<>>, code, e)))
TwoSites(c1, e1, c2, e2) == JsonBytes(Dict(Assign(Assign(<<>>, c1, e1), c2, e2)))

-----------------------------------------------------------------------------
(* The Binder calls                                                        *)

NoCall == [op |-> "init", code |-> "", keyIn |-> NoKey, key |-> NoKey,
           dataIn |-> NoArg, dataOut |-> NoArg, err |-> "",
           hasRet |-> FALSE, ret |-> <<>>, eng |-> 0, bytes |-> EmptyBytes,
           flag |-> FALSE]


\* b.load(data), data one of docs or the bytes b.dump() gives now
Load(docs) ==
    \E bytes \in docs \cup {dump(userdict).bytes} :
        LET r == load(userdict, bytes)
        IN  /\ userdict' = r.ud
            /\ last' = [NoCall EXCEPT !.op = "load", !.err = r.err, !.bytes = bytes]
            /\ UNCHANGED private_website_code
            /\ UNCHANGED fvars

\* b.dump()
Dump ==
    LET r == dump(userdict)
    IN  /\ last' = [NoCall EXCEPT !.op = "dump", !.err = r.err, !.bytes = r.bytes,
                                  !.hasRet = (r.err = "")]
        /\ UNCHANGED <<userdict, private_website_code>>
        /\ UNCHANGED fvars

\* b.generate_website_code(); with no free candidate the loop does not end
Generate ==
    /\ IF userdict.tag # "dict"
       THEN last' = [NoCall EXCEPT !.op = "generate", !.err = "AttributeError"]
       ELSE \E c \in generate_website_code(userdict, private_website_code) :
                last' = [NoCall EXCEPT !.op = "generate", !.code = c, !.hasRet = TRUE]
    /\ UNCHANGED <<userdict, private_website_code>>
    /\ UNCHANGED fvars

\* b.add_website(code, name)
AddSite(codes, names) ==
    \E code \in codes, name \in names :
        LET r == add_website(userdict, private_website_code, code, name)
        IN  /\ userdict' = r.ud
            /\ last' = [NoCall EXCEPT !.op = "add_site", !.code = code, !.err = r.err]
            /\ UNCHANGED private_website_code
            /\ UNCHANGED fvars

\* b.set_website_name(code, name)
SetName(codes, names) ==
    \E code \in codes, name \in names :
        LET r == set_website_name(userdict, private_website_code, code, name)
        IN  /\ userdict' = r.ud
            /\ last' = [NoCall EXCEPT !.op = "set_name", !.code = code, !.err = r.err]
            /\ UNCHANGED private_website_code
            /\ UNCHANGED fvars

\* b.remove_website(code)
RemoveSite(codes) ==
    \E code \in codes :
        LET r == remove_website(userdict, private_website_code, code)
        IN  /\ userdict' = r.ud
            /\ last' = [NoCall EXCEPT !.op = "remove_site", !.code = code, !.err = r.err]
            /\ UNCHANGED private_website_code
            /\ UNCHANGED fvars

\* b.get_website_name(code), b.get_website_data_number(code) and
\* b.is_encrypted_website_data(code): the accessors that only read
\* (the value returned is not kept)
Read(codes) ==
    \E code \in codes :
        /\ \/ LET r == get_website_name(userdict, private_website_code, code)
              IN  last' = [NoCall EXCEPT !.op = "get_name", !.code = code,
                                        !.err = r.err, !.hasRet = r.hasRet]
           \/ LET r == get_website_data_number(userdict, private_website_code, code)
              IN  last' = [NoCall EXCEPT !.op = "get_record_count", !.code = code,
                                        !.err = r.err, !.hasRet = r.hasRet]
           \/ LET r == is_encrypted_website_data(userdict, private_website_code, code)
              IN  last' = [NoCall EXCEPT !.op = "is_encrypted", !.code = code,
                                        !.err = r.err, !.hasRet = (r.err = "")]
        /\ UNCHANGED <<userdict, private_website_code>>
        /\ UNCHANGED fvars

\* b.set_website_data_encryption(code, set_encrypted)
SetEncryption(codes) ==
    \E code \in codes, set_encrypted \in BOOLEAN :
        LET r == set_website_data_encryption(userdict, private_website_code, code,
                                             set_encrypted)
        IN  /\ userdict' = r.ud
            /\ last' = [NoCall EXCEPT !.op = "set_encryption", !.code = code,
                                      !.flag = set_encrypted, !.err = r.err]
            /\ UNCHANGED private_website_code
            /\ UNCHANGED fvars

\* b.get_website_data(code, user_key = key)
GetData(codes, keys) ==
    \E code \in codes, key \in keys :
        LET r == get_website_data(userdict, private_website_code, code, key)
        IN  /\ userdict' = r.ud
            /\ last' = [NoCall EXCEPT !.op = "get_data", !.code = code, !.keyIn = key,
                                      !.key = r.key, !.err = r.err, !.hasRet = r.hasRet,
                                      !.ret = r.ret, !.eng = r.eng]
            /\ UNCHANGED private_website_code
            /\ UNCHANGED fvars

\* b.set_website_data(code, data, user_key = key)
SetData(codes, args, keys) ==
    \E code \in codes, arg \in args, key \in keys :
        LET r == set_website_data(userdict, private_website_code, code, arg, key)
        IN  /\ userdict' = r.ud
            /\ last' = [NoCall EXCEPT !.op = "set_data", !.code = code, !.keyIn = key,
                                      !.key = r.key, !.dataIn = arg, !.dataOut = r.out,
                                      !.err = r.err, !.eng = r.eng]
            /\ UNCHANGED private_website_code
            /\ UNCHANGED fvars

\* Binder.private_website_code = codes: the class attribute is a list any
\* client can replace
SetPrivate ==
    /\ \E codes \in SUBSET {SiteB} : private_website_code' = codes
    /\ last' = [NoCall EXCEPT !.op = "set_private"]
    /\ UNCHANGED userdict
    /\ UNCHANGED fvars

-----------------------------------------------------------------------------
(* filesmanager: account names                                             *)

\* the characters of the class [A-Za-z0-9_-]
PatternChars ==
    { "a", "b", "c", "d", "e", "f", "g", "h", "i", "j", "k", "l", "m",
      "n", "o", "p", "q", "r", "s", "t", "u", "v", "w", "x", "y", "z",
      "A", "B", "C", "D", "E", "F", "G", "H", "I", "J", "K", "L", "M",
      "N", "O", "P", "Q", "R", "S", "T", "U", "V", "W", "X", "Y", "Z",
      "0", "1", "2", "3", "4", "5", "6", "7", "8", "9", "_", "-" }

AllInClass(s) == \A i \in 1..Len(s) : s[i] \in PatternChars

\* re.match(r'^[A-Za-z0-9_-]+$', account): one or more characters of the
\* class, then the end of the string or a newline that ends the string
re_match(s) ==
    \/ Len(s) >= 1 /\ AllInClass(s)
    \/ Len(s) >= 2 /\ s[Len(s)] = "\n" /\ AllInClass(SubSeq(s, 1, Len(s) - 1))

\* is_valid_account_name(account); account names are sequences of characters
is_valid_account_name(account) ==
    IF Len(account) = 0 THEN [err |-> "ValueError", val |-> FALSE]
    ELSE [err |-> "", val |-> re_match(account)]

Alice == <<"a", "l", "i", "c", "e", "-", "0", "1">>
AliceNL == <<"a", "_", "1", "\n">>
BadName == <<"i", "n", "v", " ", "!">>
NoName == <<>>
Accounts == {Alice, AliceNL, BadName, NoName}

-----------------------------------------------------------------------------
(* filesmanager: files and the Crypto Engine as filesmanager uses it      *)

\* the content of a file or of a buffer
Bytes(kind, pw, pin, data, len, r) ==
    [kind |-> kind, pw |-> pw, pin |-> pin, data |-> data, len |-> len, r |-> r]
NoFile == Bytes("nofile", "", "", "", 0, "")
ZeroBytes == Bytes("empty", "", "", "", 0, "")
WipedBuf == Bytes("wiped", "", "", "", 0, "")
\* what the engine hands back beside is_error = True, when it is bytes at all
ErrorBytes == Bytes("other", "", "", "", 1, "")

Nonces == {"r1", "r2"}

\* encryption.random_bytearray(n), r the random draw
random_bytearray(n, r) == IF n = 0 THEN ZeroBytes ELSE Bytes("random", "", "", "", n, r)

\* the ciphertext of data under password and pin; it carries salt and iv
Ciphertext(data, pw, pin) == Bytes("ct", pw, pin, data, Len(data) + 32, "")

\* encryption.data_to_encryptedtext(data, password, pin = pin):
\* (is_error, error, encryptedtext); outcome is the engine's: "ok", or an
\* error with None or with some bytes as third component
EngineOutcomes == {"ok", "error_none", "error_bytes"}
engine_encrypt(data, pw, pin, outcome) ==
    IF outcome = "ok"
    THEN [is_error |-> FALSE, none |-> FALSE, encryptedtext |-> Ciphertext(data, pw, pin)]
    ELSE [is_error |-> TRUE, none |-> (outcome = "error_none"), encryptedtext |-> ErrorBytes]

\* encryption.encryptedtext_to_data(encryptedtext, password, pin = pin):
\* (is_error, error, data)
engine_decrypt(blob, pw, pin) ==
    IF blob.kind = "ct" /\ blob.pw = pw /\ blob.pin = pin
    THEN [is_error |-> FALSE, data |-> blob.data]
    ELSE [is_error |-> TRUE, data |-> ""]

\* an account directory: the directory itself, encryptedtext.bin,
\* language.txt and profile.png
NoDir == [dir |-> FALSE, blob |-> NoFile, language |-> FALSE, profile |-> FALSE]
NewDir == [dir |-> TRUE, blob |-> NoFile, language |-> FALSE, profile |-> FALSE]

\* exist_account(account)
exist_account(f, account) ==
    LET v == is_valid_account_name(account)
    IN  IF v.err # "" THEN [err |-> v.err, val |-> FALSE]
        ELSE IF ~v.val THEN [err |-> "ValueError", val |-> FALSE]
        ELSE [err |-> "", val |-> f[account].dir]

\* get_account_path(account) and get_encryptedtext_filepath(account): the
\* exception raised, "" when a path is returned
get_account_path(f, account) ==
    LET x == exist_account(f, account)
    IN  IF x.err # "" THEN x.err ELSE IF ~x.val THEN "ValueError" ELSE ""

\* get_existing_accounts()
get_existing_accounts(f) == {a \in DOMAIN f : f[a].dir}

-----------------------------------------------------------------------------
(* filesmanager: the operations as functions of the account directories   *)

WipedSecret == "#wiped"

\* create_account(account, password, pin, language); icon: the default
\* profile icon exists; outcome: what the engine does
create_account(f, icon, account, password, pin, outcome) ==
    LET x == exist_account(f, account)
        e == engine_encrypt("", password, pin, outcome)
        made == NewDir
        written == [made EXCEPT !.blob = e.encryptedtext]
        spoken == [written EXCEPT !.language = TRUE]
        reported == IF e.is_error THEN "error" ELSE "ok"
    IN  IF Len(password) = 0 THEN [f |-> f, err |-> "ValueError", engine |-> ""]
        ELSE IF Len(pin) = 0 THEN [f |-> f, err |-> "ValueError", engine |-> ""]
        ELSE IF Len(account) = 0 \/ ~is_valid_account_name(account).val
        THEN [f |-> f, err |-> "ValueError", engine |-> ""]
        ELSE IF x.val THEN [f |-> f, err |-> "ValueError", engine |-> ""]
        ELSE IF e.none
        \* open(.., "wb") has made the file when file.write(None) raises
        THEN [f |-> [f EXCEPT ![account] = [made EXCEPT !.blob = ZeroBytes]],
              err |-> "TypeError", engine |-> reported]
        ELSE IF ~icon
        THEN [f |-> [f EXCEPT ![account] = spoken], err |-> "FileNotFoundError",
              engine |-> reported]
        ELSE [f |-> [f EXCEPT ![account] = [spoken EXCEPT !.profile = TRUE]], err |-> "",
              engine |-> reported]

\* (mutant) on the engine's failure only the password is wiped
load_keep_pin(f, account, password, pin) ==
    LET p == get_account_path(f, account)
        fail(e) == [err |-> e, password |-> password, pin |-> pin,
                    hasRet |-> FALSE, data |-> "", engine |-> ""]
    IN  IF p # "" THEN fail(p)
        ELSE IF Len(password) = 0 THEN fail("ValueError")
        ELSE IF Len(pin) = 0 THEN fail("ValueError")
        ELSE IF f[account].blob.kind = "nofile" THEN fail("FileNotFoundError")
        ELSE LET d == engine_decrypt(f[account].blob, password, pin)
             IN  IF d.is_error
                 THEN [err |-> "ComputationError", password |-> WipedSecret,
                       pin |-> pin, hasRet |-> FALSE, data |-> "",
                       engine |-> "error"]
                 ELSE [err |-> "", password |-> password, pin |-> pin,
                       hasRet |-> TRUE, data |-> d.data, engine |-> "ok"]

\* load_encryptedtext(account, password, pin)
load_encryptedtext(f, account, password, pin) ==
    LET p == get_account_path(f, account)
        fail(e) == [err |-> e, password |-> password, pin |-> pin,
                    hasRet |-> FALSE, data |-> "", engine |-> ""]
    IN  IF p # "" THEN fail(p)
        ELSE IF Len(password) = 0 THEN fail("ValueError")
        ELSE IF Len(pin) = 0 THEN fail("ValueError")
        ELSE IF f[account].blob.kind = "nofile" THEN fail("FileNotFoundError")
        ELSE LET d == engine_decrypt(f[account].blob, password, pin)
             IN  IF d.is_error
                 THEN [err |-> "ComputationError", password |-> WipedSecret,
                       pin |-> WipedSecret, hasRet |-> FALSE, data |-> "",
                       engine |-> "error"]
                 ELSE [err |-> "", password |-> password, pin |-> pin,
                       hasRet |-> TRUE, data |-> d.data, engine |-> "ok"]

\* dumps_encryptedtext(account, password, pin, data)
dumps_encryptedtext(f, account, password, pin, data, outcome) ==
    LET p == get_account_path(f, account)
        e == engine_encrypt(data, password, pin, outcome)
        fail(x) == [f |-> f, err |-> x, password |-> password, pin |-> pin, data |-> data,
                    engine |-> ""]
    IN  IF p # "" THEN fail(p)
        ELSE IF Len(password) = 0 THEN fail("ValueError")
        ELSE IF Len(pin) = 0 THEN fail("ValueError")
        ELSE IF e.is_error
        THEN [f |-> f, err |-> "ComputationError", password |-> WipedSecret,
              pin |-> WipedSecret, data |-> WipedSecret, engine |-> "error"]
        ELSE [f |-> [f EXCEPT ![account].blob = e.encryptedtext], err |-> "",
              password |-> password, pin |-> pin, data |-> data, engine |-> "ok"]

\* delete_account, statement by statement
\*   encryptedtext = bytearray(file.read())
delete_read(blob) == blob
\*   file.write(encryption.random_bytearray(len(encryptedtext)))
delete_overwrite(encryptedtext, r) == random_bytearray(encryptedtext.len, r)
\*   encryption.delete_bytearray(encryptedtext)
delete_wipe(encryptedtext) == WipedBuf
\*   shutil.rmtree(accountpath)
delete_rmtree(f, account) == [f EXCEPT ![account] = NoDir]

\* (mutant) the buffer is wiped before the blob is overwritten
delete_step_wipe_first(pc) ==
    CASE pc = "start" -> "read"
      [] pc = "read" -> "wipe"
      [] pc = "wipe" -> "overwrite"
      [] pc = "overwrite" -> "rmtree"
      [] OTHER -> "done"

\* the statement delete_account executes after the one at pc
delete_step(pc) ==
    CASE pc = "start" -> "read"
      [] pc = "read" -> "overwrite"
      [] pc = "overwrite" -> "wipe"
      [] pc = "wipe" -> "rmtree"
      [] OTHER -> "done"

-----------------------------------------------------------------------------
(* The filesmanager calls                                                  *)

NoVCall == [op |-> "init", acct |-> NoName, err |-> "", password |-> "", pin |-> "",
            data |-> "", hasRet |-> FALSE, ret |-> "", engine |-> ""]

\* no delete_account under way; at "done" the record keeps what the last
\* delete_account did until the next call starts
Idle == [pc |-> "idle", acct |-> NoName, encryptedtext |-> NoFile,
         orig |-> NoFile, at |-> NoFile]
Quiet == del.pc \in {"idle", "done"}

Passwords == {"hunter2", "other", ""}
Pins == {"4242", ""}
Payloads == {"", "d1"}

\* a new Binder (Binder.__init__) and no account, in an installation that
\* has its default profile icon
BinderInit ==
    /\ userdict = EmptyDict
    /\ private_website_code = {}
    /\ last = NoCall
    /\ fs = [a \in Accounts |-> NoDir]
    /\ iconbank = TRUE
    /\ del = Idle
    /\ vlast = NoVCall

\* the same, the default profile icon there or not
Init ==
    /\ userdict = EmptyDict
    /\ private_website_code = {}
    /\ last = NoCall
    /\ fs = [a \in Accounts |-> NoDir]
    /\ iconbank \in BOOLEAN
    /\ del = Idle
    /\ vlast = NoVCall

\* create_account(account, password, pin)
Create ==
    /\ Quiet
    /\ \E account \in Accounts, password \in Passwords \ {"other"}, pin \in Pins,
          outcome \in EngineOutcomes :
           LET r == create_account(fs, iconbank, account, password, pin, outcome)
           IN  /\ fs' = r.f
               /\ vlast' = [NoVCall EXCEPT !.op = "create", !.acct = account,
                                           !.err = r.err, !.password = password,
                                           !.pin = pin, !.engine = r.engine]
    /\ del' = Idle
    /\ UNCHANGED iconbank
    /\ UNCHANGED bvars

\* load_encryptedtext(account, password, pin)
VaultLoad ==
    /\ Quiet
    /\ \E account \in Accounts, password \in Passwords, pin \in Pins :
           LET r == load_encryptedtext(fs, account, password, pin)
           IN  vlast' = [NoVCall EXCEPT !.op = "load", !.acct = account, !.err = r.err,
                                        !.password = r.password, !.pin = r.pin,
                                        !.hasRet = r.hasRet, !.ret = r.data,
                                        !.engine = r.engine]
    /\ del' = Idle
    /\ UNCHANGED <<fs, iconbank>>
    /\ UNCHANGED bvars

\* dumps_encryptedtext(account, password, pin, data)
VaultDump ==
    /\ Quiet
    /\ \E account \in Accounts, password \in Passwords \ {"other"}, pin \in Pins,
          data \in Payloads, outcome \in EngineOutcomes \ {"error_none"} :
           LET r == dumps_encryptedtext(fs, account, password, pin, data, outcome)
           IN  /\ fs' = r.f
               /\ vlast' = [NoVCall EXCEPT !.op = "dump", !.acct = account, !.err = r.err,
                                           !.password = r.password, !.pin = r.pin,
                                           !.data = r.data, !.engine = r.engine]
    /\ del' = Idle
    /\ UNCHANGED iconbank
    /\ UNCHANGED bvars

\* delete_account(account): the paths are asked for, then the blob is read
DeleteStart ==
    /\ Quiet
    /\ \E account \in Accounts :
           LET p == get_account_path(fs, account)
               e == IF p # "" THEN p
                    ELSE IF fs[account].blob.kind = "nofile" THEN "FileNotFoundError"
                    ELSE ""
           IN  IF e # ""
               THEN /\ del' = Idle
                    /\ vlast' = [NoVCall EXCEPT !.op = "delete", !.acct = account, !.err = e]
               ELSE /\ del' = [pc |-> delete_step("start"), acct |-> account,
                               encryptedtext |-> delete_read(fs[account].blob),
                               orig |-> fs[account].blob, at |-> NoFile]
                    /\ vlast' = [NoVCall EXCEPT !.op = "deleting", !.acct = account]
    /\ UNCHANGED <<fs, iconbank>>
    /\ UNCHANGED bvars

\* delete_account goes on with its next statement
DeleteStep ==
    /\ ~Quiet
    /\ LET next == delete_step(del.pc)
       IN  \/ /\ next = "overwrite"
              /\ \E r \in Nonces :
                     fs' = [fs EXCEPT ![del.acct].blob = delete_overwrite(del.encryptedtext, r)]
              /\ del' = [del EXCEPT !.pc = next]
              /\ UNCHANGED vlast
           \/ /\ next = "wipe"
              /\ del' = [del EXCEPT !.pc = next,
                                    !.encryptedtext = delete_wipe(del.encryptedtext)]
              /\ UNCHANGED <<fs, vlast>>
           \/ /\ next = "rmtree"
              /\ fs' = delete_rmtree(fs, del.acct)
              /\ del' = [del EXCEPT !.pc = "done", !.at = fs[del.acct].blob]
              /\ vlast' = [NoVCall EXCEPT !.op = "delete", !.acct = del.acct]
    /\ UNCHANGED iconbank
    /\ UNCHANGED bvars

-----------------------------------------------------------------------------
(* Specifications                                                          *)

\* the store and its codes: every Binder call, few data
StoreCodes == {SiteA, SiteB, NotAStr}
StoreNames == Names \cup {NotAStr}
StoreData == {ListArg(<<>>), ListArg(<<Tup(Str("login"), Str("pw"))>>)}
StoreDocs == { EmptyBytes, Garbage, NotBytes, JsonBytes(NotADict),
               TwoSites(SiteA, DocPlain, SiteB, DocEncEmpty) }

StoreNext ==
    \/ Load(StoreDocs)
    \/ Dump
    \/ Generate
    \/ AddSite(StoreCodes, StoreNames)
    \/ SetName(StoreCodes, StoreNames)
    \/ RemoveSite(StoreCodes)
    \/ SetEncryption(StoreCodes)
    \/ Read(StoreCodes)
    \/ GetData(StoreCodes, {NoKey})
    \/ SetData(StoreCodes, StoreData, {NoKey})
    \/ SetPrivate

SpecStore == BinderInit /\ [][StoreNext]_vars

\* the data of one site: every data list and key
DataCodes == {SiteA}
DataDocs == {EmptyBytes, OneSite(SiteA, DocEncEmpty), OneSite(SiteA, DocEncTwoKeys)}

DataNext ==
    \/ Load(DataDocs)
    \/ AddSite({SiteA}, {""})
    \/ GetData(DataCodes, KeyArgs)
    \/ SetData(DataCodes, DataArgs, KeyArgs)

SpecData == BinderInit /\ [][DataNext]_vars

\* the account files
FilesNext ==
    \/ Create
    \/ VaultLoad
    \/ VaultDump
    \/ DeleteStart
    \/ DeleteStep

SpecFiles == Init /\ [][FilesNext]_vars

-----------------------------------------------------------------------------
(* Claims                                                                  *)

\* C1 (as stated): in every state of the store, loading the bytes dump()
\* gives into a fresh Binder gives back the same store: the same codes, and
\* under each code the same name, flag and data.
C1_RoundTrip ==
    (userdict.tag = "dict" /\ dump(userdict).err = "")
        => load(EmptyDict, dump(userdict).bytes).ud = userdict

\* the site of the call is in the store, flagged encrypted
SiteEncrypted(ud, code) ==
    /\ ud.tag = "dict"
    /\ code \in DOMAIN ud.m
    /\ ud.m[code].encrypted

\* C2: on a site flagged encrypted, set_data(code, D, K) followed by
\* get_data(code, K) with a buffer holding the same key returns a sequence
\* equal to D as it was passed to set_data.
C2_EncryptionRoundTrip ==
    [][ ( /\ last.op = "set_data" /\ last.err = ""
          /\ last.keyIn \in KeyVals
          /\ SiteEncrypted(userdict, last.code)
          /\ last'.op = "get_data"
          /\ last'.code = last.code
          /\ last'.keyIn = last.keyIn )
        => ( /\ last'.err = ""
             /\ last'.hasRet
             /\ last'.ret = last.dataIn.items ) ]_vars

\* C2 happens: get_data with a key has returned MaxData decrypted tuples of
\* an encrypted site (only set_data writes that many under one key)
C2_Witness ==
    /\ last.op = "get_data" /\ last.err = "" /\ last.hasRet
    /\ last.keyIn \in KeyVals
    /\ SiteEncrypted(userdict, last.code)
    /\ Len(last.ret) = MaxData
    /\ last.eng = MaxData
    /\ \A i \in 1..Len(last.ret) : last.ret[i] \in ValidItems

\* C3 (as stated): when the engine rejects a tuple during get_data on an
\* encrypted site, get_data fails with the wrong-key error, returns nothing,
\* leaves the caller's key wiped, and the store is as it was before the call.
C3_WrongKeyNoPartialState ==
    [][ (last'.op = "get_data" /\ last'.err = "WrongKeyError")
        => ( /\ ~last'.hasRet
             /\ last'.key = Wiped
             /\ userdict' = userdict ) ]_vars

\* C4 (as stated): every get_data and set_data call that is handed a key
\* buffer has wiped it when it returns or raises.
C4_KeyAlwaysConsumed ==
    (last.op \in {"get_data", "set_data"} /\ last.keyIn \in KeyVals)
        => last.key = Wiped

\* a call of get_data, or of set_data with well-formed data, without a key
\* on a site flagged encrypted
NoKeyCall ==
    /\ last'.op \in {"get_data", "set_data"}
    /\ last'.keyIn = NoKey
    /\ SiteEncrypted(userdict, last'.code)
    /\ last'.op = "set_data"
          => (last'.dataIn.kind = "list" /\ WellStructured(last'.dataIn.items))

\* C5 (as stated): such a call fails with KeyRequiredError, an error other
\* than the TypeError of a key of the wrong type; it returns no data and
\* leaves the store unchanged.
C5_KeyRequiredError ==
    [][ NoKeyCall
        => ( /\ last'.err \notin {"", "TypeError"}
             /\ ~last'.hasRet
             /\ userdict' = userdict ) ]_vars

\* C5 (amended): such a call fails with TypeError, the class also raised for
\* a key of the wrong type; it makes no engine call, returns no data and
\* leaves the store unchanged.
C5_NoKeyTypeError ==
    [][ NoKeyCall
        => ( /\ last'.err = "TypeError"
             /\ ~last'.hasRet
             /\ last'.eng = 0
             /\ userdict' = userdict ) ]_vars

\* C5 happens: get_data without a key has failed on an encrypted site that
\* holds data
C5_Witness ==
    /\ last.op = "get_data" /\ last.keyIn = NoKey /\ last.err = "TypeError"
    /\ SiteEncrypted(userdict, last.code)
    /\ Len(userdict.m[last.code].data) > 0

\* C6: set_data with malformed data fails before the encryption flag is
\* looked at: with ValueError for a list holding anything but 2-tuples of
\* str (TypeError for data that is no list), whatever the flag and the key,
\* with no engine call and the store unchanged.
C6_ValidationFirst ==
    [][ ( /\ last'.op = "set_data"
          /\ last'.dataIn \in MalformedArgs )
        => ( /\ last'.err = IF last'.dataIn.kind = "list" THEN "ValueError" ELSE "TypeError"
             /\ last'.eng = 0
             /\ last'.dataOut = last'.dataIn
             /\ userdict' = userdict ) ]_vars

\* C6 happens: a 3-tuple was refused on an encrypted site, a key supplied
C6_Witness ==
    /\ last.op = "set_data" /\ last.err = "ValueError"
    /\ last.dataIn = ListArg(<<Tup3>>)
    /\ last.keyIn \in KeyVals
    /\ SiteEncrypted(userdict, last.code)

\* C7: the listing is exactly the codes of the mapping that are not
\* private; a private code is never listed, not even one that is a key of the
\* mapping, and is_website_code is false for it.
C7_ReservedNeverListed ==
    userdict.tag = "dict" =>
        LET listed == listing_website_codes(userdict, private_website_code)
        IN  /\ \A c \in private_website_code : c \notin listed
            /\ \A c \in DOMAIN userdict.m : c \notin private_website_code => c \in listed
            /\ listed \subseteq DOMAIN userdict.m
            /\ \A c \in private_website_code :
                   ~is_website_code(userdict, private_website_code, c).val

\* C7 happens: a private code is a key of the mapping, beside a listed code
C7_Witness ==
    /\ userdict.tag = "dict"
    /\ \E c \in private_website_code : c \in DOMAIN userdict.m
    /\ listing_website_codes(userdict, private_website_code) # {}

\* C8: the code generate_website_code returns has code_lenght characters, is
\* no key of the store and no private code, and add_website takes it.
C8_GeneratedCodeFresh ==
    (last.op = "generate" /\ last.hasRet) =>
        /\ Len(last.code) = code_lenght
        /\ last.code \notin DOMAIN userdict.m
        /\ last.code \notin private_website_code
        /\ \A name \in Names :
               add_website(userdict, private_website_code, last.code, name).err = ""

\* C8 happens: a code was generated while the store held a site and a code
\* was private
C8_Witness ==
    /\ last.op = "generate" /\ last.hasRet
    /\ DOMAIN userdict.m # {}
    /\ private_website_code # {}

\* the account's directory is there
Exists(f, a) == f[a].dir

\* C9 (as stated): an account exists exactly from a successful create to
\* its delete: a directory appears only by a create that succeeds and goes
\* only by delete; create on an existing account fails and leaves the blob;
\* load, dump and delete of an account that does not exist fail.
C9_Lifecycle ==
    [][ \A a \in Accounts :
          /\ (~Exists(fs, a) /\ Exists(fs', a))
                => (vlast'.op = "create" /\ vlast'.acct = a /\ vlast'.err = "")
          /\ (Exists(fs, a) /\ ~Exists(fs', a))
                => (vlast'.op = "delete" /\ vlast'.acct = a /\ vlast'.err = "")
          /\ (Exists(fs, a) /\ vlast'.op = "create" /\ vlast'.acct = a)
                => (vlast'.err = "ValueError" /\ fs' = fs)
          /\ (~Exists(fs, a) /\ vlast'.op \in {"load", "dump", "delete"} /\ vlast'.acct = a)
                => (vlast'.err # "" /\ fs' = fs) ]_vars

\* C10: delete_account overwrites the blob with random bytes of the length of
\* the old ciphertext, then wipes its buffer, then removes the directory: the
\* blob is overwritten before the buffer is wiped, both before the directory
\* goes, and once delete_account has returned there is no directory.
C10_ShredThenUnlink ==
    LET Shredded(b) == /\ b.len = del.orig.len
                       /\ del.orig.kind = "ct" => (b.kind = "random" /\ b # del.orig)
    IN  /\ del.pc = "read"
            => (Exists(fs, del.acct) /\ fs[del.acct].blob = del.orig
                /\ del.encryptedtext = del.orig)
        /\ del.pc = "overwrite"
            => (Exists(fs, del.acct) /\ Shredded(fs[del.acct].blob)
                /\ del.encryptedtext = del.orig)
        /\ del.pc = "wipe"
            => (Exists(fs, del.acct) /\ Shredded(fs[del.acct].blob)
                /\ del.encryptedtext = WipedBuf)
        /\ del.pc = "done"
            => (~Exists(fs, del.acct) /\ Shredded(del.at)
                /\ del.encryptedtext = WipedBuf)
        /\ (vlast.op = "delete" /\ vlast.err = "")
            => (del.pc = "done" /\ del.acct = vlast.acct /\ ~Exists(fs, vlast.acct))
        /\ \A a \in Accounts : ~Exists(fs, a) => fs[a] = NoDir

\* C10 happens: delete_account has removed an account that held a ciphertext
C10_Witness ==
    /\ del.pc = "done"
    /\ del.orig.kind = "ct"
    /\ vlast.op = "delete" /\ vlast.err = ""

\* C11: when the engine reports failure inside load_encryptedtext or
\* dumps_encryptedtext, the call raises its ComputationError with every secret
\* buffer of the caller wiped (password and pin for load, and nothing
\* returned; password, pin and data for dump), and the failed dump leaves the
\* blob and every other file as they were.
C11_SecretsWipedOnEngineFailure ==
    [][ /\ (vlast'.op = "load" /\ vlast'.engine = "error")
            => ( /\ vlast'.err = "ComputationError"
                 /\ vlast'.password = WipedSecret
                 /\ vlast'.pin = WipedSecret
                 /\ ~vlast'.hasRet )
        /\ (vlast'.op = "dump" /\ vlast'.engine = "error")
            => ( /\ vlast'.err = "ComputationError"
                 /\ vlast'.password = WipedSecret
                 /\ vlast'.pin = WipedSecret
                 /\ vlast'.data = WipedSecret
                 /\ fs' = fs ) ]_vars

\* C11 happens: the engine has failed in a dump of new data to an account
\* that holds a ciphertext
C11_Witness ==
    /\ vlast.op = "dump" /\ vlast.engine = "error"
    /\ fs[vlast.acct].blob.kind = "ct"
    /\ fs[vlast.acct].blob.data = ""

\* C12 (as stated): load with the password and pin of the last write returns
\* the bytes last written: after a create that returned, a load with its
\* password and pin returns zero-length bytes; after a dump that returned, a
\* load with its password and pin returns the data of that dump; a load
\* writes nothing, and whatever a load returns right after a create or a dump
\* of the same account is what that call wrote.
C12_LoadReturnsLastWritten ==
    [][ LET after == load_encryptedtext(fs', vlast'.acct, vlast'.password, vlast'.pin)
            written == IF vlast.op = "create" THEN "" ELSE vlast.data
        IN  /\ (vlast'.op = "create" /\ vlast'.err = "")
                => (after.err = "" /\ after.hasRet /\ after.data = "")
            /\ (vlast'.op = "dump" /\ vlast'.err = "")
                => (after.err = "" /\ after.hasRet /\ after.data = vlast'.data)
            /\ vlast'.op = "load" => fs' = fs
            /\ ( /\ vlast.op \in {"create", "dump"} /\ vlast.err = ""
                 /\ vlast'.op = "load" /\ vlast'.hasRet
                 /\ vlast'.acct = vlast.acct )
                => vlast'.ret = written ]_vars

\* C13 (as stated): set_website_data_encryption(code, b) on a store instance
\* with a listed code and a boolean b returns, makes is_encrypted(code) equal
\* to b and changes nothing else of the store (the name and the data of the
\* site and every other entry stay); with a string code that is not listed it
\* fails with ValueError and the store is unchanged.
C13_FlagOnlyToggle ==
    [][ ( /\ last'.op = "set_encryption"
          /\ userdict.tag = "dict"
          /\ IsStr(last'.code) )
        => IF last'.code \in listing_website_codes(userdict, private_website_code)
           THEN /\ last'.err = ""
                /\ is_encrypted_website_data(userdict', private_website_code,
                                             last'.code).val = last'.flag
                /\ userdict' = Dict([userdict.m EXCEPT ![last'.code].encrypted = last'.flag])
           ELSE /\ last'.err = "ValueError"
                /\ userdict' = userdict ]_vars

\* C14 (as stated): add_website is all-or-nothing: when it returns, the code
\* was no key of the mapping and the mapping has gained exactly the entry
\* {name, not encrypted, no data} under the code, every other entry as
\* before; when it raises (the code is listed, the code or the name is no
\* string, the code is private) the mapping is exactly as it was.
C14_AddAllOrNothing ==
    [][ (last'.op = "add_site" /\ userdict.tag = "dict")
        => IF last'.err = ""
           THEN /\ last'.code \notin DOMAIN userdict.m
                /\ \E name \in Names :
                       userdict' = Dict(Assign(userdict.m, last'.code,
                                               Entry(name, FALSE, <<>>)))
           ELSE userdict' = userdict ]_vars

\* C15 (as stated): is_valid_account_name is true exactly for the non-empty
\* names all of whose characters are ASCII letters, digits, '-' or '_'; a
\* create_account with any other name, or with an empty password or pin,
\* fails with ValueError and makes no directory and no file; a directory is
\* only ever made under a name of that form.
C15_NamesValidated ==
    [][ LET WellNamed(a) == Len(a) >= 1 /\ AllInClass(a)
        IN  /\ \A a \in Accounts \ {NoName} : is_valid_account_name(a).val = WellNamed(a)
            /\ ( /\ vlast'.op = "create"
                 /\ \/ ~WellNamed(vlast'.acct)
                    \/ vlast'.password = ""
                    \/ vlast'.pin = "" )
                => (vlast'.err = "ValueError" /\ fs' = fs)
            /\ \A a \in Accounts : Exists(fs', a) => WellNamed(a) ]_vars

\* C16: on a store that is a mapping, every accessor that takes a site code
\* (get_name, set_name, get_record_count, is_encrypted, get_data, set_data with
\* well-formed data, remove_site) fails with ValueError, returns nothing and
\* leaves the store unchanged when the string code is not a listed entry (it
\* is no key, or it is a private key); remove_site on a listed code returns
\* and deletes exactly that entry: the code is no site afterwards and every
\* other entry is as before.
C16_NotFoundAndRemove ==
    [][ ( /\ last'.op \in {"get_name", "set_name", "get_record_count", "is_encrypted",
                           "get_data", "set_data", "remove_site"}
          /\ userdict.tag = "dict"
          /\ IsStr(last'.code)
          /\ last'.op = "set_data"
                => (last'.dataIn.kind = "list" /\ last'.dataIn.items \in ValidData) )
        => LET listed == last'.code \in listing_website_codes(userdict,
                                                              private_website_code)
           IN  /\ ~listed => ( /\ last'.err = "ValueError"
                               /\ ~last'.hasRet
                               /\ userdict' = userdict )
               /\ (listed /\ last'.op = "remove_site")
                    => ( /\ last'.err = ""
                         /\ userdict' = Dict([c \in DOMAIN userdict.m \ {last'.code}
                                                  |-> userdict.m[c]])
                         /\ ~is_website_code(userdict', private_website_code,
                                             last'.code).val ) ]_vars

\* C16 happens: an accessor has refused a private code that is a key of the
\* mapping, beside a listed entry that holds data
C16_Witness ==
    /\ last.op \in {"get_name", "get_record_count", "is_encrypted", "get_data"}
    /\ last.err = "ValueError"
    /\ userdict.tag = "dict"
    /\ last.code \in DOMAIN userdict.m
    /\ last.code \in private_website_code
    /\ \E c \in listing_website_codes(userdict, private_website_code) :
           Len(userdict.m[c].data) > 0

\* C17 (as stated): in every state the public operations reach, the store is
\* a mapping each entry of which has a string name, a boolean flag and data
\* that is a sequence of 2-tuples of strings; and a load that raises leaves
\* the store as it was (so load raises for every document that is no such
\* mapping).
C17_StoreWellFormed ==
    [][ /\ userdict'.tag = "dict"
        /\ \A c \in DOMAIN userdict'.m :
               LET e == userdict'.m[c]
               IN  /\ IsStr(e.name)
                   /\ e.encrypted \in BOOLEAN
                   /\ \A i \in 1..Len(e.data) :
                          /\ e.data[i].kind = "tuple"
                          /\ Len(e.data[i].elems) = 2
                          /\ \A j \in 1..2 : IsPyStr(e.data[i].elems[j])
        /\ (last'.op = "load" /\ last'.err # "") => userdict' = userdict ]_vars

\* C18 (as stated): a get_website_data that returns, on a site flagged
\* encrypted and with a key, leaves the store as it was: the field values of
\* the site are still base64 ciphertext, none the plaintext, so the same call
\* with a fresh buffer of the same key returns the same data again.
C18_GetDataReadOnly ==
    [][ ( /\ last'.op = "get_data" /\ last'.err = "" /\ last'.hasRet
          /\ last'.keyIn \in KeyVals
          /\ SiteEncrypted(userdict, last'.code) )
        => LET again == get_website_data(userdict', private_website_code, last'.code,
                                         last'.keyIn)
           IN  /\ userdict' = userdict
               /\ \A i \in 1..Len(userdict'.m[last'.code].data) :
                      userdict'.m[last'.code].data[i].elems[2].t = "ct"
               /\ again.err = "" /\ again.hasRet /\ again.ret = last'.ret ]_vars

\* C19 (as stated): create_account is all-or-nothing about the account's
\* existence: a create that passed its argument checks and then raises leaves
\* no directory, so exist_account is false and the same create is not refused
\* as already created; a create in which the engine reported a failure does
\* not return normally; and every account that exists holds a blob that is a
\* ciphertext the engine produced.
C19_CreateAllOrNothing ==
    [][ /\ ( /\ vlast'.op = "create" /\ vlast'.err # ""
             /\ ~Exists(fs, vlast'.acct) )
            => ( /\ ~exist_account(fs', vlast'.acct).val
                 /\ fs' = fs )
        /\ (vlast'.op = "create" /\ vlast'.engine = "error") => vlast'.err # ""
        /\ \A a \in Accounts :
               (Exists(fs', a) /\ del'.pc \in {"idle", "done"})
                   => fs'[a].blob.kind = "ct" ]_vars

====
